---- MODULE Spec2Model ----
(***************************************************************************)
(* A model of erp.py, a single-file ERP (Tkinter + SQLite): the eight      *)
(* tables of the database, the session of each running ERPApp process     *)
(* (the principal, the frame shown, the teacher dashboard's widgets) and   *)
(* one action per button handler.                                          *)
(*                                                                         *)
(* Representation.                                                         *)
(*  - A text (str) is a sequence of chunks; the chunk " " is whitespace,   *)
(*    every other chunk is a run of non-blank characters.  strip and lower *)
(*    are computed on that sequence.  A cancelled askstring (None) and the *)
(*    empty text are both <<>>: the code tests them with `not`.            *)
(*  - A table is the sequence of its rows in rowid order.  Every primary   *)
(*    key is INTEGER PRIMARY KEY AUTOINCREMENT and no statement deletes,   *)
(*    so the rowid of a row is its position.  0 stands for SQL NULL.       *)
(*  - A date (str(date.today())) is a day number; ISO dates order the same. *)
(*  - The text of a combobox, "k - name", is the chunks k, - and name;     *)
(*    sel_id reads the id from the first.  The comboboxes are editable,    *)
(*    so k is what the user chose or typed.                                *)
(***************************************************************************)
EXTENDS Integers, Sequences, FiniteSets, TLC

VARIABLES
    users, teachers, students, subjects, assignments, attendance, marks, notices,
    today,      \* the clock's date, date.today()
    user,       \* ERPApp.user of each process: a users row (dict) or NoUser
    frame,      \* ERPApp._frame of each process: the class of the frame shown
    dash,       \* TeacherDashboard.subjects: the ids loaded when it was built
    tree,       \* TeacherDashboard.tree: the rows shown
    msg,        \* the last messagebox each process showed
    pending     \* mark_attendance between its SELECT and its write

tables == <<users, teachers, students, subjects, assignments, attendance, marks, notices>>
session == <<user, frame, dash, tree, msg, pending>>
vars == <<users, teachers, students, subjects, assignments, attendance, marks, notices,
          today, user, frame, dash, tree, msg, pending>>

----------------------------------------------------------------------------
(* Texts *)

WS == " "

RECURSIVE lstrip(_)
lstrip(s) == IF s # <<>> /\ Head(s) = WS THEN lstrip(Tail(s)) ELSE s

RECURSIVE rstrip(_)
rstrip(s) == IF s # <<>> /\ s[Len(s)] = WS THEN rstrip(SubSeq(s, 1, Len(s) - 1)) ELSE s

\* str.strip()
strip(s) == rstrip(lstrip(s))

\* str.lower() on one chunk: the chunks with capitals that the inputs use
lower_chunk(c) ==
    CASE c = "Teacher" -> "teacher"
      [] c = "TEACHER" -> "teacher"
      [] c = "Student" -> "student"
      [] c = "Admin"   -> "admin"
      [] c = "T1"      -> "t1"
      [] c = "P"       -> "p"
      [] c = "R1"      -> "r1"
      [] OTHER         -> c

\* str.lower()
lower(s) == [i \in 1..Len(s) |-> lower_chunk(s[i])]

\* The rank of a chunk in the order SQLite's BINARY collation gives texts
\* (byte order: blank, digits, capitals, small letters).
chunk_rank(c) ==
    CASE c = WS   -> 0
      [] c = "R1" -> 1
      [] c = "r1" -> 2
      [] c = "r2" -> 3
      [] c = "r3" -> 4
      [] OTHER    -> 5

RECURSIVE text_less(_, _)
text_less(a, b) ==
    IF b = <<>> THEN FALSE
    ELSE IF a = <<>> THEN TRUE
    ELSE IF Head(a) = Head(b) THEN text_less(Tail(a), Tail(b))
    ELSE chunk_rank(Head(a)) < chunk_rank(Head(b))

T(c) == <<c>>

----------------------------------------------------------------------------
(* Rows and queries *)

NULL == 0
NoUser == [user_id |-> 0]
NoMsg == [title |-> "", message |-> "", detail |-> <<>>]
Box(title, message) == [title |-> title, message |-> message, detail |-> <<>>]

\* created_at: CURRENT_TIMESTAMP writes "YYYY-MM-DD HH:MM:SS", and
\* datetime.now().isoformat() writes "YYYY-MM-DDTHH:MM:SS.ffffff"; the model
\* keeps the format and the day.
Stamp(fmt, day) == [fmt |-> fmt, day |-> day]

Ids(table) == 1..Len(table)

\* The rowids a WHERE clause selects, in rowid order: the order SQLite scans
\* a table in when the query has no index and no ORDER BY.
RECURSIVE InOrder(_)
InOrder(rowids) ==
    IF rowids = {} THEN <<>>
    ELSE LET first == CHOOSE i \in rowids : \A j \in rowids : i <= j
         IN  <<first>> \o InOrder(rowids \ {first})

\* cursor.fetchone(): the rowid of the first row of the result, 0 for None
FetchOne(rowids) == IF rowids = <<>> THEN 0 ELSE rowids[1]

Range(s) == {s[i] : i \in DOMAIN s}

----------------------------------------------------------------------------
(* init_db *)

HasAdmin(us) == \E i \in Ids(us) : us[i].role = T("admin")

DefaultAdmin(day) ==
    [username |-> T("admin"), password |-> T("admin123"), role |-> T("admin"),
     reference_id |-> NULL, created_at |-> Stamp("sql", day)]

\* A variant of init_db that looks for the default admin's username and
\* password instead of the role
init_db_by_password(us, day) ==
    IF \E i \in Ids(us) : us[i].username = T("admin") /\ us[i].password = T("admin123")
    THEN us ELSE Append(us, DefaultAdmin(day))

\* CREATE TABLE IF NOT EXISTS keeps every existing table; the default admin is
\* inserted when no row has role admin.
init_db(us, day) == IF HasAdmin(us) THEN us ELSE Append(us, DefaultAdmin(day))

----------------------------------------------------------------------------
(* What the dashboards read *)

\* int() of a chunk of digits
int_chunk(c) ==
    CASE c = "1" -> 1 [] c = "2" -> 2 [] c = "3" -> 3 [] c = "4" -> 4 [] OTHER -> 5

\* int(sel.split(" - ")[0]) of a combobox text "k - name", the chunks k, -, name
sel_id(sel) == int_chunk(sel[1])

\* TeacherDashboard.__init__: assignments JOIN subjects WHERE teacher_id = ?,
\* one subject id per assignment row whose subject exists.
TeacherSubjects(ref) ==
    LET hits == InOrder({a \in Ids(assignments) :
                            /\ assignments[a].teacher_id = ref
                            /\ assignments[a].subject_id \in Ids(subjects)})
    IN  [i \in 1..Len(hits) |-> assignments[hits[i]].subject_id]

\* students ORDER BY roll_no (roll_no is UNIQUE): the student ids in that order
RECURSIVE InsertByRoll(_, _, _)
InsertByRoll(st, sorted, id) ==
    IF sorted = <<>> THEN <<id>>
    ELSE IF text_less(st[id].roll_no, st[Head(sorted)].roll_no)
         THEN <<id>> \o sorted
         ELSE <<Head(sorted)>> \o InsertByRoll(st, Tail(sorted), id)

RECURSIVE SortByRoll(_, _)
SortByRoll(st, n) == IF n = 0 THEN <<>> ELSE InsertByRoll(st, SortByRoll(st, n - 1), n)

\* A faulty variant of the SELECT below that leaves the date out of the WHERE
SelectAttendanceAnyDate(att, student_id, subject_id, day) ==
    FetchOne(InOrder({a \in Ids(att) : /\ att[a].student_id = student_id
                                        /\ att[a].subject_id = subject_id}))

\* SELECT ... FROM attendance WHERE student_id=? AND subject_id=? AND date=?,
\* then fetchone(): the rowid of the first such row, 0 when there is none
SelectAttendance(att, student_id, subject_id, day) ==
    FetchOne(InOrder({a \in Ids(att) : /\ att[a].student_id = student_id
                                        /\ att[a].subject_id = subject_id
                                        /\ att[a].date = day}))

\* A variant of the SELECT below that leaves the student out of the WHERE
SelectMarksOfSubject(mk, student_id, subject_id) ==
    FetchOne(InOrder({m \in Ids(mk) : mk[m].subject_id = subject_id}))

\* SELECT marks FROM marks WHERE student_id=? AND subject_id=?, then fetchone()
SelectMarks(mk, student_id, subject_id) ==
    FetchOne(InOrder({m \in Ids(mk) : /\ mk[m].student_id = student_id
                                       /\ mk[m].subject_id = subject_id}))

\* One row of TeacherDashboard.tree, read from the tables st, att and mk
TreeRow(st, att, mk, id, subject_id, day) ==
    LET a == SelectAttendance(att, id, subject_id, day)
        m == SelectMarks(mk, id, subject_id)
    IN  [student_id |-> id, roll_no |-> st[id].roll_no, name |-> st[id].name,
         att |-> IF a = 0 THEN "NotMarked" ELSE att[a].status,
         marks |-> IF m = 0 THEN <<>> ELSE <<mk[m].marks>>]

\* TeacherDashboard.load_students, past the check of the combobox: the rows of the tree
LoadTree(st, att, mk, subject_id, day) ==
    LET order == SortByRoll(st, Len(st))
    IN  [i \in 1..Len(order) |-> TreeRow(st, att, mk, order[i], subject_id, day)]


\* AdminDashboard.load_attendance: attendance LEFT JOIN students, subjects and
\* teachers, ORDER BY date DESC (rows of one date in rowid order).
AttendanceViewRow(i) ==
    LET a == attendance[i]
    IN  [attendance_id |-> i,
         student |-> IF a.student_id \in Ids(students)
                     THEN students[a.student_id].name ELSE T("Unknown"),
         subject |-> IF a.subject_id \in Ids(subjects)
                     THEN subjects[a.subject_id].subject_name ELSE T("Unknown"),
         date |-> a.date,
         status |-> a.status,
         marked_by |-> IF a.teacher_id \in Ids(teachers)
                       THEN teachers[a.teacher_id].name ELSE T("Admin")]

RECURSIVE AttendanceViewFrom(_)
AttendanceViewFrom(day) ==
    IF day < 1 THEN <<>>
    ELSE LET hits == InOrder({a \in Ids(attendance) : attendance[a].date = day})
         IN  [i \in 1..Len(hits) |-> AttendanceViewRow(hits[i])] \o AttendanceViewFrom(day - 1)

AttendanceView == AttendanceViewFrom(today)

----------------------------------------------------------------------------
(* The session of process c *)

Put(f, c, v) == [f EXCEPT ![c] = v]

\* Process c runs one handler at a time: none starts while another is under way.
Idle(c) == pending[c] = <<>>

\* ERPApp.__init__: init_db, no principal, the login page
Start(c) ==
    /\ users' = init_db(users, today)
    /\ user' = Put(user, c, NoUser)
    /\ frame' = Put(frame, c, "LoginPage")
    /\ dash' = Put(dash, c, <<>>)
    /\ tree' = Put(tree, c, <<>>)
    /\ msg' = Put(msg, c, NoMsg)
    /\ pending' = Put(pending, c, <<>>)
    /\ UNCHANGED <<teachers, students, subjects, assignments, attendance, marks, notices, today>>

\* The row SELECT * FROM users WHERE username=? AND password=? fetches, 0 for None
LoginRow(us, u, p) ==
    FetchOne(InOrder({r \in Ids(us) : us[r].username = u /\ us[r].password = p}))

\* The row do_login finds for the texts of the two entries on the table us:
\* both are stripped, and nothing is looked up when one of them is empty
login_row(us, u_raw, p_raw) ==
    IF strip(u_raw) = <<>> \/ strip(p_raw) = <<>> THEN 0
    ELSE LoginRow(us, strip(u_raw), strip(p_raw))

\* dict(row) of a users row
UserDict(i) ==
    [user_id |-> i, username |-> users[i].username, password |-> users[i].password,
     role |-> users[i].role, reference_id |-> users[i].reference_id,
     created_at |-> users[i].created_at]

\* LoginPage.do_login with the texts u and p in the two entries
do_login(c, u_raw, p_raw) ==
    LET u == strip(u_raw)
        p == strip(p_raw)
        row == login_row(users, u_raw, p_raw)
        role == users[row].role
        ref == users[row].reference_id
        subs == TeacherSubjects(ref)
    IN
    /\ frame[c] = "LoginPage"
    /\ Idle(c)
    /\ IF u = <<>> \/ p = <<>>
       THEN /\ msg' = Put(msg, c, Box("Error", "Enter username and password"))
            /\ UNCHANGED <<user, frame, dash, tree>>
       ELSE IF row = 0
       THEN /\ msg' = Put(msg, c, Box("Login failed", "Invalid username or password"))
            /\ UNCHANGED <<user, frame, dash, tree>>
       ELSE /\ user' = Put(user, c, UserDict(row))
            /\ CASE role = T("admin") ->
                      /\ frame' = Put(frame, c, "AdminDashboard")
                      /\ msg' = Put(msg, c, NoMsg)
                      /\ UNCHANGED <<dash, tree>>
                 [] role = T("teacher") ->
                      \* TeacherDashboard.__init__ and load_students_initial
                      /\ frame' = Put(frame, c, "TeacherDashboard")
                      /\ dash' = Put(dash, c, subs)
                      /\ IF subs = <<>>
                         THEN /\ msg' = Put(msg, c, Box("No assignment",
                                      "You have no assigned subjects. Contact admin."))
                              /\ tree' = Put(tree, c, <<>>)
                         ELSE /\ msg' = Put(msg, c, NoMsg)
                              /\ tree' = Put(tree, c,
                                      LoadTree(students, attendance, marks, subs[1], today))
                 [] role = T("student") ->
                      \* StudentDashboard.__init__: without a students row it shows an
                      \* error and switches to the login page, which the outer
                      \* switch_frame then replaces by this (bare) dashboard
                      /\ frame' = Put(frame, c, "StudentDashboard")
                      /\ msg' = Put(msg, c, IF ref \in Ids(students) THEN NoMsg
                                            ELSE Box("Error", "Student record not found"))
                      /\ UNCHANGED <<dash, tree>>
                 [] OTHER ->
                      /\ msg' = Put(msg, c, Box("Error", "Unknown role"))
                      /\ UNCHANGED <<frame, dash, tree>>
    /\ UNCHANGED <<tables, today, pending>>

\* A variant of logout below that switches to the login page and leaves
\* master.user as it is
logout_keeps_user(c) ==
    /\ frame[c] \in {"AdminDashboard", "TeacherDashboard", "StudentDashboard"}
    /\ Idle(c)
    /\ frame' = Put(frame, c, "LoginPage")
    /\ dash' = Put(dash, c, <<>>)
    /\ tree' = Put(tree, c, <<>>)
    /\ msg' = Put(msg, c, NoMsg)
    /\ UNCHANGED <<tables, today, user, pending>>

\* AdminDashboard.logout, TeacherDashboard.logout, StudentDashboard.logout
logout(c) ==
    /\ frame[c] \in {"AdminDashboard", "TeacherDashboard", "StudentDashboard"}
    /\ Idle(c)
    /\ user' = Put(user, c, NoUser)
    /\ frame' = Put(frame, c, "LoginPage")
    /\ dash' = Put(dash, c, <<>>)
    /\ tree' = Put(tree, c, <<>>)
    /\ msg' = Put(msg, c, NoMsg)
    /\ UNCHANGED <<tables, today, pending>>

\* StudentDashboard.load_info ("Refresh Info"): it reads notices, marks and
\* attendance into the widgets and writes nothing
load_info(c) ==
    /\ frame[c] = "StudentDashboard"
    /\ Idle(c)
    /\ user[c].reference_id \in Ids(students)
    /\ msg' = Put(msg, c, NoMsg)
    /\ UNCHANGED <<tables, today, user, frame, dash, tree, pending>>

----------------------------------------------------------------------------
(* The admin's handlers *)

\* SimpleForm.on_ok: the entries stripped; the form is accepted when none is empty
form_vals(form) == [i \in 1..Len(form) |-> strip(form[i])]
\* A variant of the check below that accepts a form once any entry is filled
form_any(form) == \E i \in 1..Len(form) : strip(form[i]) # <<>>
form_ok(form) == \A i \in 1..Len(form) : strip(form[i]) # <<>>

AdminIdle(c) == frame[c] = "AdminDashboard" /\ Idle(c)

\* What an admin handler leaves alone besides the table it writes and msg
AdminFrame == <<today, user, frame, dash, tree, pending>>

\* A variant of the constraint below for a students table declared without it
roll_free(st, roll) == FALSE

\* roll_no TEXT UNIQUE: an INSERT with a roll_no some row has raises IntegrityError
roll_taken(st, roll) == \E i \in Ids(st) : st[i].roll_no = roll

\* AdminDashboard.add_student with the five entries of the form
add_student(c, form) ==
    LET v == form_vals(form)
    IN
    /\ AdminIdle(c)
    /\ Len(form) = 5
    /\ IF ~form_ok(form)
       THEN /\ msg' = Put(msg, c, Box("Error", "All fields required"))
            /\ UNCHANGED students
       ELSE IF roll_taken(students, v[2])
       THEN \* sqlite3.IntegrityError
            /\ msg' = Put(msg, c, Box("Error", "Roll No must be unique"))
            /\ UNCHANGED students
       ELSE /\ students' = Append(students,
                    [name |-> v[1], roll_no |-> v[2], phone |-> v[3],
                     email |-> v[4], course |-> v[5]])
            /\ msg' = Put(msg, c, Box("Success", "Student added"))
    /\ UNCHANGED <<users, teachers, subjects, assignments, attendance, marks, notices>>
    /\ UNCHANGED AdminFrame

\* AdminDashboard.add_teacher with the three entries of the form
add_teacher(c, form) ==
    LET v == form_vals(form)
    IN
    /\ AdminIdle(c)
    /\ Len(form) = 3
    /\ IF ~form_ok(form)
       THEN /\ msg' = Put(msg, c, Box("Error", "All fields required"))
            /\ UNCHANGED teachers
       ELSE /\ teachers' = Append(teachers, [name |-> v[1], phone |-> v[2], email |-> v[3]])
            /\ msg' = Put(msg, c, Box("Success", "Teacher added"))
    /\ UNCHANGED <<users, students, subjects, assignments, attendance, marks, notices>>
    /\ UNCHANGED AdminFrame

\* AdminDashboard.add_subject with the two entries of the form
add_subject(c, form) ==
    LET v == form_vals(form)
    IN
    /\ AdminIdle(c)
    /\ Len(form) = 2
    /\ IF ~form_ok(form)
       THEN /\ msg' = Put(msg, c, Box("Error", "All fields required"))
            /\ UNCHANGED subjects
       ELSE IF \E i \in Ids(subjects) : subjects[i].subject_code = v[2]
       THEN \* sqlite3.IntegrityError: subject_code TEXT UNIQUE
            /\ msg' = Put(msg, c, Box("Error", "Subject code must be unique"))
            /\ UNCHANGED subjects
       ELSE /\ subjects' = Append(subjects, [subject_name |-> v[1], subject_code |-> v[2]])
            /\ msg' = Put(msg, c, Box("Success", "Subject added"))
    /\ UNCHANGED <<users, teachers, students, assignments, attendance, marks, notices>>
    /\ UNCHANGED AdminFrame

\* AdminDashboard.assign_teacher and AssignDialog.assign with the texts of the
\* two comboboxes.  No PRAGMA foreign_keys is set, so SQLite checks no reference.
assign_teacher(c, t_sel, s_sel) ==
    /\ AdminIdle(c)
    /\ IF teachers = <<>> \/ subjects = <<>>
       THEN /\ msg' = Put(msg, c, Box("Error", "Add teachers and subjects first"))
            /\ UNCHANGED assignments
       ELSE IF t_sel = <<>> \/ s_sel = <<>>
       THEN /\ msg' = Put(msg, c, Box("Error", "Select both"))
            /\ UNCHANGED assignments
       ELSE /\ assignments' = Append(assignments,
                    [teacher_id |-> sel_id(t_sel), subject_id |-> sel_id(s_sel)])
            /\ msg' = Put(msg, c, Box("Success", "Assigned"))
    /\ UNCHANGED <<users, teachers, students, subjects, attendance, marks, notices>>
    /\ UNCHANGED AdminFrame

\* A variant of the check below that refuses only the empty text
role_given(role) == role # <<>>

\* create_login's check of the role: not role or role.lower() not in ("teacher","student")
role_ok(role) == role # <<>> /\ lower(role) \in {T("teacher"), T("student")}

\* AdminDashboard.create_login and CreateLoginDialog.create: the role typed
\* into askstring, then the combobox text and the two entries of the dialog
create_login(c, role, sel_raw, username_raw, password_raw) ==
    LET rows == IF lower(role) = T("teacher") THEN teachers ELSE students
        sel == strip(sel_raw)
        username == strip(username_raw)
        password == strip(password_raw)
    IN
    /\ AdminIdle(c)
    /\ IF ~role_ok(role)
       THEN /\ msg' = Put(msg, c, Box("Error", "Role must be 'teacher' or 'student'"))
            /\ UNCHANGED users
       ELSE IF rows = <<>>
       THEN /\ msg' = Put(msg, c, Box("Error", "No records found for that role"))
            /\ UNCHANGED users
       ELSE IF sel = <<>> \/ username = <<>> \/ password = <<>>
       THEN /\ msg' = Put(msg, c, Box("Error", "All fields required"))
            /\ UNCHANGED users
       ELSE IF \E i \in Ids(users) : users[i].username = username
       THEN \* sqlite3.IntegrityError: username TEXT UNIQUE
            /\ msg' = Put(msg, c, Box("Error", "Username already exists"))
            /\ UNCHANGED users
       ELSE /\ users' = Append(users,
                    [username |-> username, password |-> password, role |-> lower(role),
                     reference_id |-> sel_id(sel), created_at |-> Stamp("sql", today)])
            /\ msg' = Put(msg, c, Box("Success", "Login created"))
    /\ UNCHANGED <<teachers, students, subjects, assignments, attendance, marks, notices>>
    /\ UNCHANGED AdminFrame

\* AdminDashboard.add_notice with the two entries of the form
add_notice(c, form) ==
    LET v == form_vals(form)
    IN
    /\ AdminIdle(c)
    /\ Len(form) = 2
    /\ IF ~form_ok(form)
       THEN /\ msg' = Put(msg, c, Box("Error", "All fields required"))
            /\ UNCHANGED notices
       ELSE /\ notices' = Append(notices, [title |-> v[1], content |-> v[2], date |-> today])
            /\ msg' = Put(msg, c, Box("Success", "Notice added"))
    /\ UNCHANGED <<users, teachers, students, subjects, assignments, attendance, marks>>
    /\ UNCHANGED AdminFrame

\* AdminDashboard.show_password: selected is the user_id of the selected row of
\* the credentials tree, 0 when none is selected
show_password(c, selected) ==
    /\ AdminIdle(c)
    /\ selected \in {0} \cup Ids(users)
    /\ msg' = Put(msg, c,
          IF selected = 0 THEN Box("Error", "Select a user row to show password")
          ELSE [title |-> "Password", message |-> "Username, Role, Password",
                detail |-> <<users[selected].username, users[selected].role,
                             users[selected].password>>])
    /\ UNCHANGED tables
    /\ UNCHANGED AdminFrame

\* AdminDashboard.reset_password: the selected row and the text typed into
\* askstring, which is stored as typed
reset_password(c, selected, new_pw) ==
    /\ AdminIdle(c)
    /\ selected \in {0} \cup Ids(users)
    /\ IF selected = 0
       THEN /\ msg' = Put(msg, c, Box("Error", "Select a user row to reset password"))
            /\ UNCHANGED users
       ELSE IF new_pw = <<>>
       THEN /\ msg' = Put(msg, c, NoMsg)
            /\ UNCHANGED users
       ELSE /\ users' = [users EXCEPT ![selected].password = new_pw,
                                      ![selected].created_at = Stamp("iso", today)]
            /\ msg' = Put(msg, c, Box("Success", "Password reset"))
    /\ UNCHANGED <<teachers, students, subjects, assignments, attendance, marks, notices>>
    /\ UNCHANGED AdminFrame

----------------------------------------------------------------------------
(* The teacher's handlers *)

TeacherIdle(c) == frame[c] = "TeacherDashboard" /\ Idle(c)

\* TeacherDashboard.load_students ("Load Students", "Refresh") with the text
\* of the subject combobox
load_students(c, sel_raw) ==
    LET sel == strip(sel_raw)
    IN
    /\ TeacherIdle(c)
    /\ IF sel = <<>>
       THEN /\ msg' = Put(msg, c, Box("Error", "Select a subject"))
            /\ UNCHANGED tree
       ELSE /\ msg' = Put(msg, c, NoMsg)
            /\ tree' = Put(tree, c, LoadTree(students, attendance, marks, sel_id(sel), today))
    /\ UNCHANGED <<tables, today, user, frame, dash, pending>>

\* A variant of the read below that takes the principal's user_id for the
\* teacher (user["user_id"] for user["reference_id"])
MarkReadByUserId(c, sel, selected) ==
    LET student_id == tree[c][selected].student_id
        r == SelectAttendance(attendance, student_id, sel_id(sel), today)
    IN  [student_id |-> student_id, subject_id |-> sel_id(sel), date |-> today,
         teacher_ref |-> user[c].user_id,
         r_id |-> r, r_status |-> IF r = 0 THEN "" ELSE attendance[r].status]

\* A variant of the read below that takes the date once, on the day the
\* database was set up (day 1), and not in the handler
MarkReadFirstDay(c, sel, selected) ==
    LET student_id == tree[c][selected].student_id
        r == SelectAttendance(attendance, student_id, sel_id(sel), 1)
    IN  [student_id |-> student_id, subject_id |-> sel_id(sel), date |-> 1,
         teacher_ref |-> user[c].reference_id,
         r_id |-> r, r_status |-> IF r = 0 THEN "" ELSE attendance[r].status]

\* mark_attendance up to fetchone(): what the handler holds when it writes
MarkRead(c, sel, selected) ==
    LET student_id == tree[c][selected].student_id
        r == SelectAttendance(attendance, student_id, sel_id(sel), today)
    IN  [student_id |-> student_id, subject_id |-> sel_id(sel), date |-> today,
         teacher_ref |-> user[c].reference_id,
         r_id |-> r, r_status |-> IF r = 0 THEN "" ELSE attendance[r].status]

\* A faulty variant of the write below that inserts whether or not a row was read
MarkWriteInsert(att, h) ==
    Append(att, [student_id |-> h.student_id, teacher_id |-> h.teacher_ref,
                 subject_id |-> h.subject_id, date |-> h.date, status |-> "Present"])

\* A variant of the write below that looks the row up again as it writes
MarkWriteRecheck(att, h) ==
    LET r == SelectAttendance(att, h.student_id, h.subject_id, h.date)
    IN  IF r # 0
        THEN [att EXCEPT ![r].status = IF att[r].status = "Absent" THEN "Present" ELSE "Absent",
                         ![r].teacher_id = h.teacher_ref]
        ELSE Append(att, [student_id |-> h.student_id, teacher_id |-> h.teacher_ref,
                          subject_id |-> h.subject_id, date |-> h.date, status |-> "Present"])

\* A variant of the write below whose UPDATE sets the status alone
\* (UPDATE attendance SET status=? WHERE attendance_id=?)
MarkWriteStatusOnly(att, h) ==
    IF h.r_id # 0
    THEN [att EXCEPT ![h.r_id].status = IF h.r_status = "Absent" THEN "Present" ELSE "Absent"]
    ELSE Append(att, [student_id |-> h.student_id, teacher_id |-> h.teacher_ref,
                      subject_id |-> h.subject_id, date |-> h.date, status |-> "Present"])

\* A variant of the write below that keeps absence as the lack of a row: a
\* row read is deleted (DELETE FROM attendance WHERE attendance_id=?)
MarkWriteDelete(att, h) ==
    IF h.r_id # 0
    THEN SubSeq(att, 1, h.r_id - 1) \o SubSeq(att, h.r_id + 1, Len(att))
    ELSE Append(att, [student_id |-> h.student_id, teacher_id |-> h.teacher_ref,
                      subject_id |-> h.subject_id, date |-> h.date, status |-> "Present"])

\* mark_attendance from `if r:` to the commit: the UPDATE of the row read, or
\* the INSERT of a row with status Present
MarkWrite(att, h) ==
    IF h.r_id # 0
    THEN [att EXCEPT ![h.r_id].status = IF h.r_status = "Absent" THEN "Present" ELSE "Absent",
                     ![h.r_id].teacher_id = h.teacher_ref]
    ELSE Append(att, [student_id |-> h.student_id, teacher_id |-> h.teacher_ref,
                      subject_id |-> h.subject_id, date |-> h.date, status |-> "Present"])

\* TeacherDashboard.mark_attendance, run without interruption: the text of the
\* subject combobox and the selected row of the tree (0: none)
mark_attendance(c, sel_raw, selected) ==
    LET sel == strip(sel_raw)
        att == MarkWrite(attendance, MarkRead(c, sel, selected))
    IN
    /\ TeacherIdle(c)
    /\ selected \in 0..Len(tree[c])
    /\ IF sel = <<>>
       THEN /\ msg' = Put(msg, c, Box("Error", "Select a subject"))
            /\ UNCHANGED <<attendance, tree>>
       ELSE IF selected = 0
       THEN /\ msg' = Put(msg, c, Box("Error", "Select a student row to toggle attendance"))
            /\ UNCHANGED <<attendance, tree>>
       ELSE /\ attendance' = att
            /\ msg' = Put(msg, c, NoMsg)
            /\ tree' = Put(tree, c, LoadTree(students, att, marks, sel_id(sel), today))
    /\ UNCHANGED <<users, teachers, students, subjects, assignments, marks, notices>>
    /\ UNCHANGED <<today, user, frame, dash, pending>>

\* mark_attendance of one process among several, first half: up to fetchone().
\* Each process has its own connection, and the SELECT runs outside any
\* transaction, so another process may write before this one does.
mark_select(c, sel_raw, selected) ==
    LET sel == strip(sel_raw)
    IN
    /\ TeacherIdle(c)
    /\ selected \in 1..Len(tree[c])
    /\ sel # <<>>
    /\ pending' = Put(pending, c, <<MarkRead(c, sel, selected)>>)
    /\ msg' = Put(msg, c, NoMsg)
    /\ UNCHANGED <<tables, today, user, frame, dash, tree>>

\* mark_attendance of one process among several, second half: the write, the
\* commit and load_students
mark_write(c) ==
    LET h == pending[c][1]
        att == MarkWrite(attendance, h)
    IN
    /\ pending[c] # <<>>
    /\ attendance' = att
    /\ pending' = Put(pending, c, <<>>)
    /\ tree' = Put(tree, c, LoadTree(students, att, marks, h.subject_id, today))
    /\ UNCHANGED <<users, teachers, students, subjects, assignments, marks, notices>>
    /\ UNCHANGED <<today, user, frame, dash, msg>>

\* A variant of the dialog below without minvalue and maxvalue: it closes with
\* whatever integer is typed
askinteger_unbounded(typed, minvalue, maxvalue) == typed

\* simpledialog.askinteger(minvalue, maxvalue): typed is <<>> (Cancel) or <<v>>;
\* the dialog closes with v only when v is in range, so a value out of range
\* ends as None
askinteger(typed, minvalue, maxvalue) ==
    IF typed # <<>> /\ minvalue <= typed[1] /\ typed[1] <= maxvalue THEN typed ELSE <<>>

\* A variant of the INSERT below that replaces the row the student already
\* has in the subject (INSERT OR REPLACE on the pair)
replace_marks(mk, row) ==
    LET m == SelectMarks(mk, row.student_id, row.subject_id)
    IN  IF m = 0 THEN Append(mk, row) ELSE [mk EXCEPT ![m] = row]

\* INSERT INTO marks (student_id,subject_id,teacher_id,marks,exam_type)
insert_marks(mk, row) == Append(mk, row)

\* TeacherDashboard.update_marks: the combobox text, the selected row, what is
\* typed into askinteger, and the exam type typed into askstring
update_marks(c, sel_raw, selected, typed, exam_type) ==
    LET sel == strip(sel_raw)
        val == askinteger(typed, 0, 100)
        mk == insert_marks(marks, [student_id |-> tree[c][selected].student_id,
                                   subject_id |-> sel_id(sel),
                                   teacher_id |-> user[c].reference_id,
                                   marks |-> val[1], exam_type |-> exam_type,
                                   created_at |-> Stamp("sql", today)])
    IN
    /\ TeacherIdle(c)
    /\ selected \in 0..Len(tree[c])
    /\ IF sel = <<>>
       THEN /\ msg' = Put(msg, c, Box("Error", "Select a subject"))
            /\ UNCHANGED <<marks, tree>>
       ELSE IF selected = 0
       THEN /\ msg' = Put(msg, c, Box("Error", "Select a student row to update marks"))
            /\ UNCHANGED <<marks, tree>>
       ELSE IF val = <<>>
       THEN /\ msg' = Put(msg, c, NoMsg)
            /\ UNCHANGED <<marks, tree>>
       ELSE /\ marks' = mk
            /\ msg' = Put(msg, c, NoMsg)
            /\ tree' = Put(tree, c, LoadTree(students, attendance, mk, sel_id(sel), today))
    /\ UNCHANGED <<users, teachers, students, subjects, assignments, attendance, notices>>
    /\ UNCHANGED <<today, user, frame, dash, pending>>

----------------------------------------------------------------------------
(* The clock *)

\* Midnight passes: date.today() moves to the next day
NextDay ==
    /\ today' = today + 1
    /\ UNCHANGED <<tables, session>>

----------------------------------------------------------------------------
(* Specifications.  A configuration B names the processes, the inputs the    *)
(* users give and the sizes the tables may reach.                            *)

\* The state after ERPApp() of every process on a new database file
InitOf(B) ==
    /\ users = init_db(<<>>, 1)
    /\ teachers = <<>> /\ students = <<>> /\ subjects = <<>> /\ assignments = <<>>
    /\ attendance = <<>> /\ marks = <<>> /\ notices = <<>>
    /\ today = 1
    /\ user = [c \in B.clients |-> NoUser]
    /\ frame = [c \in B.clients |-> "LoginPage"]
    /\ dash = [c \in B.clients |-> <<>>]
    /\ tree = [c \in B.clients |-> <<>>]
    /\ msg = [c \in B.clients |-> NoMsg]
    /\ pending = [c \in B.clients |-> <<>>]

\* The sizes of the next state are within the configuration's
Within(B) ==
    /\ Len(users') <= B.maxUsers
    /\ Len(teachers') <= B.maxTeachers
    /\ Len(students') <= B.maxStudents
    /\ Len(subjects') <= B.maxSubjects
    /\ Len(assignments') <= B.maxAssignments
    /\ Len(attendance') <= B.maxAttendance
    /\ Len(marks') <= B.maxMarks
    /\ Len(notices') <= B.maxNotices
    /\ today' <= B.maxDay

digits(k) == CASE k = 1 -> "1" [] k = 2 -> "2" [] k = 3 -> "3" [] k = 4 -> "4" [] OTHER -> "5"

\* The texts a combobox that lists the rows 1..n can hold: empty, or "k - name"
Sels(n) == {<<>>} \cup {<<digits(k), "-", "name">> : k \in 1..n}

\* One step of process c under configuration B
StepStart(B, c) == Start(c) /\ Within(B)
StepLogin(B, c) == (\E u \in B.loginU, p \in B.loginP : do_login(c, u, p)) /\ Within(B)
StepLogout(B, c) == logout(c) /\ Within(B)
StepLoadInfo(B, c) == load_info(c) /\ Within(B)
StepAddStudent(B, c) == (\E form \in B.studentForms : add_student(c, form)) /\ Within(B)
StepAddTeacher(B, c) == (\E form \in B.teacherForms : add_teacher(c, form)) /\ Within(B)
StepAddSubject(B, c) == (\E form \in B.subjectForms : add_subject(c, form)) /\ Within(B)
StepAssign(B, c) ==
    (\E t \in Sels(B.maxTeachers), s \in Sels(B.maxSubjects) : assign_teacher(c, t, s))
    /\ Within(B)
StepCreateLogin(B, c) ==
    (\E role \in B.roles, sel \in Sels(B.maxRef), u \in B.newU, p \in B.newP :
        create_login(c, role, sel, u, p))
    /\ Within(B)
StepAddNotice(B, c) == (\E form \in B.noticeForms : add_notice(c, form)) /\ Within(B)
StepShowPassword(B, c) == (\E k \in 0..B.maxUsers : show_password(c, k)) /\ Within(B)
StepResetPassword(B, c) ==
    (\E k \in 0..B.maxUsers, pw \in B.resetP : reset_password(c, k, pw)) /\ Within(B)
\* reset_password with the row of the admin's own account selected
StepResetOwnPassword(B, c) ==
    (\E pw \in B.resetP : reset_password(c, user[c].user_id, pw)) /\ Within(B)
StepLoadStudents(B, c) ==
    (\E sel \in Sels(B.maxSel) : load_students(c, sel)) /\ Within(B)
StepMarkAttendance(B, c) ==
    (\E sel \in Sels(B.maxSel), k \in 0..B.maxStudents : mark_attendance(c, sel, k))
    /\ Within(B)
StepMarkSelect(B, c) ==
    (\E sel \in Sels(B.maxSel), k \in 0..B.maxStudents : mark_select(c, sel, k))
    /\ Within(B)
StepMarkWrite(B, c) == mark_write(c) /\ Within(B)
StepUpdateMarks(B, c) ==
    (\E sel \in Sels(B.maxSel), k \in 0..B.maxStudents,
        typed \in B.marksTyped, exam \in B.examTypes : update_marks(c, sel, k, typed, exam))
    /\ Within(B)
StepNextDay(B) == NextDay /\ Within(B)

----------------------------------------------------------------------------
(* Spec: one process from a new database; the admin builds the directory,   *)
(* the teachers log in and toggle.                                           *)

MaxTeachers == 1
MaxStudents == 2
MaxSubjects == 1
MaxAssignments == 1
MaxUsers == 2
MaxAttendance == 1

StudentForm(name, roll) == <<name, roll, T("0300"), T("s@x"), T("BSCS")>>
TeacherForm(name) == <<name, T("0300"), T("t@x")>>

Dir ==
    [clients |-> {1},
     maxTeachers |-> MaxTeachers, maxStudents |-> MaxStudents, maxSubjects |-> MaxSubjects,
     maxAssignments |-> MaxAssignments, maxUsers |-> MaxUsers,
     maxAttendance |-> MaxAttendance, maxMarks |-> 0, maxNotices |-> 0, maxDay |-> 1,
     maxRef |-> MaxTeachers, maxSel |-> 1,
     loginU |-> {T("admin"), T("t1")},
     loginP |-> {T("admin123"), T("pass1")},
     studentForms |-> {StudentForm(T("S1"), T("r1")), StudentForm(T("S2"), T("r2")),
                       StudentForm(T("S2"), <<WS, "r1">>),
                       <<T("S1"), T("r1"), T("0300"), T("s@x"), <<WS>>>>},
     teacherForms |-> {TeacherForm(T("T1")), TeacherForm(<<>>)},
     subjectForms |-> {<<T("Mathematics"), T("MATH101")>>, <<T("Physics"), T("MATH101")>>,
                       <<T("Physics"), <<>>>>},
     noticeForms |-> {<<T("Exam"), <<>>>>},
     roles |-> {T("teacher")},
     newU |-> {T("t1")},
     newP |-> {T("pass1")},
     resetP |-> {<<>>},
     marksTyped |-> {<<>>},
     examTypes |-> {<<>>}]

Init == InitOf(Dir)

Next ==
    \E c \in Dir.clients :
        \/ StepStart(Dir, c)
        \/ StepLogin(Dir, c)
        \/ StepLogout(Dir, c)
        \/ StepAddStudent(Dir, c)
        \/ StepAddTeacher(Dir, c)
        \/ StepAddSubject(Dir, c)
        \/ StepAssign(Dir, c)
        \/ StepCreateLogin(Dir, c)
        \/ StepLoadStudents(Dir, c)
        \/ StepMarkAttendance(Dir, c)

Spec == Init /\ [][Next]_vars

----------------------------------------------------------------------------
(* SpecAtt: one process on a database whose directory is built: the state    *)
(* after the admin added teachers T1 and T2, students S1 and S2 and the      *)
(* subject Mathematics, assigned T1 to it, created the logins t1 and t2 and  *)
(* logged out.  The teachers log in and toggle over several days.            *)

Account(username, role, ref) ==
    [username |-> username, password |-> T("pass1"), role |-> role,
     reference_id |-> ref, created_at |-> Stamp("sql", 1)]

BuiltDirectory ==
    /\ users = <<DefaultAdmin(1), Account(T("t1"), T("teacher"), 1),
                 Account(T("t2"), T("teacher"), 2)>>
    /\ teachers = <<[name |-> T("T1"), phone |-> T("0300"), email |-> T("t@x")],
                    [name |-> T("T2"), phone |-> T("0300"), email |-> T("t@x")]>>
    /\ students = <<[name |-> T("S1"), roll_no |-> T("r1"), phone |-> T("0300"),
                     email |-> T("s@x"), course |-> T("BSCS")],
                    [name |-> T("S2"), roll_no |-> T("r2"), phone |-> T("0300"),
                     email |-> T("s@x"), course |-> T("BSCS")]>>
    /\ subjects = <<[subject_name |-> T("Mathematics"), subject_code |-> T("MATH101")]>>
    /\ assignments = <<[teacher_id |-> 1, subject_id |-> 1]>>
    /\ attendance = <<>> /\ marks = <<>> /\ notices = <<>>
    /\ today = 1

AtLogin(clients) ==
    /\ user = [c \in clients |-> NoUser]
    /\ frame = [c \in clients |-> "LoginPage"]
    /\ dash = [c \in clients |-> <<>>]
    /\ tree = [c \in clients |-> <<>>]
    /\ msg = [c \in clients |-> NoMsg]
    /\ pending = [c \in clients |-> <<>>]

AttMaxDay == 2

Att ==
    [clients |-> {1},
     maxTeachers |-> 2, maxStudents |-> 2, maxSubjects |-> 1,
     maxAssignments |-> 1, maxUsers |-> 3,
     maxAttendance |-> 2 * AttMaxDay + 1, maxMarks |-> 0, maxNotices |-> 0,
     maxDay |-> AttMaxDay, maxRef |-> 2, maxSel |-> 1,
     loginU |-> {T("t1")},
     loginP |-> {T("admin123"), T("pass1")}]

InitAtt == BuiltDirectory /\ AtLogin(Att.clients)

NextAtt ==
    \/ \E c \in Att.clients :
          \/ StepStart(Att, c)
          \/ StepLogin(Att, c)
          \/ StepLogout(Att, c)
          \/ StepLoadStudents(Att, c)
          \/ StepMarkAttendance(Att, c)
    \/ StepNextDay(Att)

SpecAtt == InitAtt /\ [][NextAtt]_vars

----------------------------------------------------------------------------
(* SpecRace: two processes on the database with the built directory; each    *)
(* runs mark_attendance in two steps, its SELECT and its write.              *)

Race ==
    [clients |-> {1, 2},
     maxTeachers |-> 2, maxStudents |-> 2, maxSubjects |-> 1,
     maxAssignments |-> 1, maxUsers |-> 3,
     maxAttendance |-> 2 * 2 + 1, maxMarks |-> 0, maxNotices |-> 0,
     maxDay |-> 1, maxRef |-> 2, maxSel |-> 1,
     loginU |-> {T("t1")},
     loginP |-> {T("pass1")}]

InitRace == BuiltDirectory /\ AtLogin(Race.clients)

NextRace ==
    \E c \in Race.clients :
        \/ StepStart(Race, c)
        \/ StepLogin(Race, c)
        \/ StepLogout(Race, c)
        \/ StepLoadStudents(Race, c)
        \/ StepMarkSelect(Race, c)
        \/ StepMarkWrite(Race, c)

SpecRace == InitRace /\ [][NextRace]_vars

----------------------------------------------------------------------------
(* SpecMarks: one process on the database with the built directory; the      *)
(* teachers record marks, and every other handler runs too.                  *)

MaxMarks == 2

Mk ==
    [clients |-> {1},
     maxTeachers |-> 2, maxStudents |-> 2, maxSubjects |-> 1,
     maxAssignments |-> 1, maxUsers |-> 3,
     maxAttendance |-> 1, maxMarks |-> MaxMarks, maxNotices |-> 1,
     maxDay |-> 1, maxRef |-> 2, maxSel |-> 1,
     loginU |-> {T("admin"), T("t1")},
     loginP |-> {T("admin123"), T("pass1")},
     studentForms |-> {StudentForm(T("S3"), T("r1"))},
     teacherForms |-> {TeacherForm(<<WS>>)},
     subjectForms |-> {<<T("Physics"), T("MATH101")>>},
     noticeForms |-> {<<T("Exam"), T("Monday")>>},
     roles |-> {T("teacher")},
     newU |-> {T("t1")},
     newP |-> {T("pass1")},
     resetP |-> {<<>>},
     marksTyped |-> {<<>>, <<-1>>, <<0>>, <<100>>, <<101>>},
     examTypes |-> {T("Final")}]

InitMarks == BuiltDirectory /\ AtLogin(Mk.clients)

NextMarks ==
    \E c \in Mk.clients :
        \/ StepStart(Mk, c)
        \/ StepLogin(Mk, c)
        \/ StepLogout(Mk, c)
        \/ StepAddStudent(Mk, c)
        \/ StepAddTeacher(Mk, c)
        \/ StepAddSubject(Mk, c)
        \/ StepAssign(Mk, c)
        \/ StepCreateLogin(Mk, c)
        \/ StepAddNotice(Mk, c)
        \/ StepShowPassword(Mk, c)
        \/ StepResetPassword(Mk, c)
        \/ StepLoadStudents(Mk, c)
        \/ StepMarkAttendance(Mk, c)
        \/ StepUpdateMarks(Mk, c)

SpecMarks == InitMarks /\ [][NextMarks]_vars

----------------------------------------------------------------------------
(* SpecCred: one process from a new database; logins are created, passwords  *)
(* reset and logins tried with texts that differ in case and in blanks.      *)

CredMaxUsers == 3

Cred ==
    [clients |-> {1},
     maxTeachers |-> 1, maxStudents |-> 1, maxSubjects |-> 0,
     maxAssignments |-> 0, maxUsers |-> CredMaxUsers,
     maxAttendance |-> 0, maxMarks |-> 0, maxNotices |-> 0,
     maxDay |-> 1, maxRef |-> 1, maxSel |-> 0,
     loginU |-> {<<>>, T("admin"), T("Admin"), T("t1"), <<WS, "t1">>, T("T1")},
     loginP |-> {<<>>, <<WS>>, T("admin123"), T("p"), T("P"), <<WS, "p">>},
     studentForms |-> {StudentForm(T("S1"), T("r1"))},
     teacherForms |-> {TeacherForm(T("T1"))},
     roles |-> {<<>>, T("teacher"), T("Teacher"), T("student"), T("admin"), <<WS, "teacher">>},
     newU |-> {T("t1"), <<WS, "t1">>, T("T1"), T("admin")},
     newP |-> {T("p")},
     resetP |-> {<<>>, <<WS>>, T("P"), <<WS, "p">>}]

InitCred == InitOf(Cred)

NextCred ==
    \E c \in Cred.clients :
        \/ StepStart(Cred, c)
        \/ StepLogin(Cred, c)
        \/ StepLogout(Cred, c)
        \/ StepLoadInfo(Cred, c)
        \/ StepAddStudent(Cred, c)
        \/ StepAddTeacher(Cred, c)
        \/ StepCreateLogin(Cred, c)
        \/ StepShowPassword(Cred, c)
        \/ StepResetPassword(Cred, c)

SpecCred == InitCred /\ [][NextCred]_vars

----------------------------------------------------------------------------
(* SpecTwo: one process on the database with the built directory, in which   *)
(* T1 is assigned the subject and T2 is not; both teachers log in, toggle   *)
(* and record marks, the admin assigns and resets the password of the       *)
(* admin account, and every other handler runs too.                          *)

Two ==
    [clients |-> {1},
     maxTeachers |-> 2, maxStudents |-> 2, maxSubjects |-> 1,
     maxAssignments |-> 2, maxUsers |-> 3,
     maxAttendance |-> 2, maxMarks |-> 1, maxNotices |-> 0,
     maxDay |-> 1, maxRef |-> 2, maxSel |-> 1,
     loginU |-> {T("admin"), T("t1"), T("t2")},
     loginP |-> {T("admin123"), T("pass1")},
     studentForms |-> {StudentForm(T("S3"), T("r1"))},
     teacherForms |-> {TeacherForm(<<WS>>)},
     subjectForms |-> {<<T("Physics"), T("MATH101")>>},
     noticeForms |-> {<<T("Exam"), <<WS>>>>},
     roles |-> {T("teacher")},
     newU |-> {T("t1")},
     newP |-> {T("pass1")},
     resetP |-> {<<>>, T("pass1")},
     marksTyped |-> {<<>>, <<70>>},
     examTypes |-> {T("Final")}]

InitTwo == BuiltDirectory /\ AtLogin(Two.clients)

NextTwo ==
    \E c \in Two.clients :
        \/ StepStart(Two, c)
        \/ StepLogin(Two, c)
        \/ StepLogout(Two, c)
        \/ StepAddStudent(Two, c)
        \/ StepAddTeacher(Two, c)
        \/ StepAddSubject(Two, c)
        \/ StepAssign(Two, c)
        \/ StepCreateLogin(Two, c)
        \/ StepAddNotice(Two, c)
        \/ StepShowPassword(Two, c)
        \/ StepResetOwnPassword(Two, c)
        \/ StepLoadStudents(Two, c)
        \/ StepMarkAttendance(Two, c)
        \/ StepUpdateMarks(Two, c)

SpecTwo == InitTwo /\ [][NextTwo]_vars

----------------------------------------------------------------------------
(* SpecForms: one process from a new database; the admin fills every form    *)
(* with accepted entries, with an empty entry and with a key some row has,  *)
(* and types an id into the combobox of the create-login dialog; the logins *)
(* created are tried.                                                        *)

FormsMaxUsers == 2

Forms ==
    [clients |-> {1},
     maxTeachers |-> 1, maxStudents |-> 1, maxSubjects |-> 1,
     maxAssignments |-> 1, maxUsers |-> FormsMaxUsers,
     maxAttendance |-> 0, maxMarks |-> 0, maxNotices |-> 1,
     maxDay |-> 1, maxRef |-> 2, maxSel |-> 0,
     loginU |-> {<<>>, T("admin"), T("t1")},
     loginP |-> {<<WS>>, T("admin123"), T("p")},
     studentForms |-> {StudentForm(T("S1"), T("r1")), StudentForm(T("S2"), <<"r1", WS>>),
                       StudentForm(<<>>, T("r2"))},
     teacherForms |-> {TeacherForm(T("T1")), TeacherForm(<<WS>>)},
     subjectForms |-> {<<T("Mathematics"), T("MATH101")>>, <<T("Physics"), T("MATH101")>>,
                       <<T("Physics"), <<>>>>},
     noticeForms |-> {<<T("Exam"), T("Monday")>>, <<T("Exam"), <<WS>>>>},
     roles |-> {<<>>, T("teacher"), T("student")},
     newU |-> {<<WS>>, T("t1"), T("admin")},
     newP |-> {T("p")}]

InitForms == InitOf(Forms)

NextForms ==
    \E c \in Forms.clients :
        \/ StepStart(Forms, c)
        \/ StepLogin(Forms, c)
        \/ StepLogout(Forms, c)
        \/ StepAddStudent(Forms, c)
        \/ StepAddTeacher(Forms, c)
        \/ StepAddSubject(Forms, c)
        \/ StepAssign(Forms, c)
        \/ StepCreateLogin(Forms, c)
        \/ StepAddNotice(Forms, c)

SpecForms == InitForms /\ [][NextForms]_vars

----------------------------------------------------------------------------
(* Properties of attendance, under SpecAtt                                   *)

\* The statuses the rows of att for (student, subject, day) carry
Statuses(att, s, sub, d) ==
    {att[i].status : i \in {j \in Ids(att) : /\ att[j].student_id = s
                                              /\ att[j].subject_id = sub
                                              /\ att[j].date = d}}

\* What one toggle makes of them
Toggled(S) ==
    IF S = {} THEN {"Present"}
    ELSE IF S = {"Present"} THEN {"Absent"}
    ELSE IF S = {"Absent"} THEN {"Present"}
    ELSE {"Neither"}

\* C3: every toggle of one client on (student, subject, today) leaves the
\* triple Present when it had no record, Absent when it was Present and
\* Present when it was Absent, and leaves the status of every other triple as
\* it was; so k consecutive toggles of a triple without a record end Present
\* for odd k and Absent for even k, whatever toggles of other triples come
\* between them.
C3_Alternation ==
    [][\A c \in Att.clients, sel \in Sels(Att.maxSel) \ {<<>>}, k \in 1..Att.maxStudents :
          mark_attendance(c, sel, k) =>
              LET s == tree[c][k].student_id
                  sub == sel_id(sel)
              IN  /\ Statuses(attendance', s, sub, today)
                        = Toggled(Statuses(attendance, s, sub, today))
                  /\ \A s2 \in 1..Att.maxStudents, sub2 \in 1..Att.maxSubjects,
                        d2 \in 1..Att.maxDay :
                        <<s2, sub2, d2>> # <<s, sub, today>> =>
                            Statuses(attendance', s2, sub2, d2)
                                = Statuses(attendance, s2, sub2, d2)]_vars

\* A triple toggled twice (its row is Absent), with the row of another triple
\* created after it and toggled twice too
C3_Witness ==
    \E i, j \in Ids(attendance) :
        /\ i < j
        /\ attendance[i].status = "Absent"
        /\ attendance[j].status = "Absent"
        /\ attendance[i].date = attendance[j].date

\* C19: every attendance row is created with the current date as its date;
\* no row is dated after the current date; and once the date has advanced past
\* a row's date, no operation changes the row, its status and teacher_id
\* included.
C19_PastRowsFixed ==
    [][/\ Len(attendance') >= Len(attendance)
       /\ \A r \in Ids(attendance') \ Ids(attendance) : attendance'[r].date = today
       /\ \A r \in Ids(attendance) :
             /\ attendance[r].date <= today
             /\ attendance[r].date < today => attendance'[r] = attendance[r]]_vars

\* The date has advanced past a row, and a row of the new date has been
\* created and toggled
C19_Witness ==
    \E i, j \in Ids(attendance) :
        /\ attendance[i].date < today
        /\ attendance[j].date = today
        /\ attendance[j].status = "Absent"
        /\ attendance[i].student_id = attendance[j].student_id
        /\ attendance[i].subject_id = attendance[j].subject_id

\* C4: with one client, no two attendance rows have the same student, subject
\* and date.
C4_OneRowPerTriple ==
    \A i, j \in Ids(attendance) :
        (/\ attendance[i].student_id = attendance[j].student_id
         /\ attendance[i].subject_id = attendance[j].subject_id
         /\ attendance[i].date = attendance[j].date) => i = j

\* Toggles on both days, one of them on a triple that had its row already
C4_Witness ==
    /\ \E i, j \in Ids(attendance) : attendance[i].date # attendance[j].date
    /\ \E i \in Ids(attendance) : attendance[i].status = "Absent" /\ attendance[i].date = today

----------------------------------------------------------------------------
(* Properties of logins, under SpecCred                                      *)

\* The users rows whose username and password are exactly u and p
ExactRows(u, p) == {i \in Ids(users) : users[i].username = u /\ users[i].password = p}

\* C1: a login with the texts (u, p) sets the principal to a users row if and
\* only if a row has exactly that username and exactly that password, and
\* then to that row; otherwise no principal is set and the login page stays.
C1_LoginIffExactRow ==
    [][\A c \in Cred.clients, u \in Cred.loginU, p \in Cred.loginP :
          do_login(c, u, p) =>
              IF ExactRows(u, p) # {}
              THEN \E i \in ExactRows(u, p) : user'[c] = UserDict(i)
              ELSE user'[c] = NoUser /\ frame'[c] = "LoginPage"]_vars

\* C2: when reset_password stores a new password that differs from the old
\* one, a login with the username and the old password finds no row on the
\* table as the reset leaves it, and a login with the username and the new
\* password finds the row that was reset.
C2_ResetTakesEffect ==
    [][\A c \in Cred.clients, k \in 1..Cred.maxUsers, pw \in Cred.resetP :
          (reset_password(c, k, pw) /\ pw # <<>> /\ pw # users[k].password) =>
              /\ login_row(users', users[k].username, users[k].password) = 0
              /\ login_row(users', users[k].username, pw) = k]_vars

----------------------------------------------------------------------------
(* Properties of two processes, under SpecRace                               *)

\* C5: a process whose check found no record inserts a Present row for its
\* triple when it writes, whatever the other process has written since the
\* check; so two processes that both check before either writes both insert,
\* and the table ends with two rows for the triple (C5_Witness).
C5_CheckThenInsert ==
    [][\A c \in Race.clients :
          (mark_write(c) /\ pending[c][1].r_id = 0) =>
              LET h == pending[c][1]
                  n == Len(attendance)
              IN  /\ Len(attendance') = n + 1
                  /\ SubSeq(attendance', 1, n) = attendance
                  /\ attendance'[n + 1].student_id = h.student_id
                  /\ attendance'[n + 1].subject_id = h.subject_id
                  /\ attendance'[n + 1].date = h.date
                  /\ attendance'[n + 1].status = "Present"]_vars

\* Two rows for one triple, both Present, and both processes done writing
C5_Witness ==
    /\ \A c \in Race.clients : pending[c] = <<>>
    /\ \E i, j \in Ids(attendance) :
          /\ i < j
          /\ attendance[i].student_id = attendance[j].student_id
          /\ attendance[i].subject_id = attendance[j].subject_id
          /\ attendance[i].date = attendance[j].date
          /\ attendance[i].status = "Present" /\ attendance[j].status = "Present"

----------------------------------------------------------------------------
(* Properties of marks, under SpecMarks                                      *)

\* The number of marks rows of student s in subject sub
PairCount(mk, s, sub) ==
    Cardinality({i \in Ids(mk) : mk[i].student_id = s /\ mk[i].subject_id = sub})

\* update_marks of process c gets as far as its INSERT: a subject and a row
\* are selected and askinteger returns a value
Recorded(c, sel, k, typed) ==
    /\ strip(sel) # <<>>
    /\ k # 0
    /\ typed # <<>> /\ typed[1] \in 0..100

\* C6: a successful update_marks for (student, subject) keeps every marks row
\* there is and adds one row, of that pair, so the rows of a pair count its
\* successful calls; an update_marks that is not successful, and every step
\* of any other handler, leaves the marks table as it is.
C6_AppendOnly ==
    [][/\ \A c \in Mk.clients, sel \in Sels(Mk.maxSel), k \in 1..Mk.maxStudents,
             typed \in Mk.marksTyped, exam \in Mk.examTypes :
             (Recorded(c, sel, k, typed) /\ update_marks(c, sel, k, typed, exam)) =>
                 LET s == tree[c][k].student_id
                     sub == sel_id(strip(sel))
                     n == Len(marks)
                 IN  /\ Len(marks') = n + 1
                     /\ SubSeq(marks', 1, n) = marks
                     /\ marks'[n + 1].student_id = s /\ marks'[n + 1].subject_id = sub
                     /\ PairCount(marks', s, sub) = PairCount(marks, s, sub) + 1
       /\ marks' # marks =>
             \E c \in Mk.clients, sel \in Sels(Mk.maxSel), k \in 1..Mk.maxStudents,
                typed \in Mk.marksTyped, exam \in Mk.examTypes :
                Recorded(c, sel, k, typed) /\ update_marks(c, sel, k, typed, exam)]_vars

\* Two marks rows of one student in one subject, with different marks
C6_Witness ==
    \E i, j \in Ids(marks) :
        /\ i < j
        /\ marks[i].student_id = marks[j].student_id
        /\ marks[i].subject_id = marks[j].subject_id
        /\ marks[i].marks # marks[j].marks

\* Every marks row holds an integer from 0 to 100
MarksInRange(mk) == \A i \in Ids(mk) : mk[i].marks \in 0..100

\* C15: every marks row holds an integer marks value with 0 <= marks <= 100;
\* update_marks with a value out of that range, or with the entry cancelled,
\* inserts nothing.
C15_MarksRange ==
    [][/\ MarksInRange(marks) /\ MarksInRange(marks')
       /\ \A c \in Mk.clients, sel \in Sels(Mk.maxSel), k \in 0..Mk.maxStudents,
             typed \in Mk.marksTyped, exam \in Mk.examTypes :
             (/\ typed = <<>> \/ typed[1] < 0 \/ typed[1] > 100
              /\ update_marks(c, sel, k, typed, exam)) => marks' = marks]_vars

\* Rows with the least and the greatest marks accepted
C15_Witness ==
    \E i, j \in Ids(marks) : marks[i].marks = 0 /\ marks[j].marks = 100

\* The marks rows of student s in subject sub
PairRows(mk, s, sub) ==
    {m \in Ids(mk) : mk[m].student_id = s /\ mk[m].subject_id = sub}

\* The greatest of a non-empty set of row ids: the row inserted last
Latest(S) == CHOOSE m \in S : \A n \in S : n <= m

\* The marks column of every row of process c's tree, loaded for subject sub,
\* is the marks of some marks row of (student, sub), and blank exactly when
\* the pair has no row
ShownMarksOk(c, sub) ==
    \A i \in DOMAIN tree[c] :
        LET rows == PairRows(marks, tree[c][i].student_id, sub)
            shown == tree[c][i].marks
        IN  /\ (shown = <<>>) = (rows = {})
            /\ shown # <<>> => \E m \in rows : marks[m].marks = shown[1]

\* C17: the current marks load_students shows for (student, subject) is the
\* marks of some marks row of the pair, and blank exactly when the pair has no
\* row; this holds for the tree as load_students fills it from the combobox
\* and as update_marks refills it after its INSERT.  (It need not be the most
\* recent row's value: C17_Witness.)
C17_ShownMarks ==
    [][\A c \in Mk.clients, sel \in Sels(Mk.maxSel) :
          /\ (strip(sel) # <<>> /\ load_students(c, sel)) =>
                ShownMarksOk(c, sel_id(strip(sel)))'
          /\ \A k \in 1..Mk.maxStudents, typed \in Mk.marksTyped, exam \in Mk.examTypes :
                (Recorded(c, sel, k, typed) /\ update_marks(c, sel, k, typed, exam)) =>
                    ShownMarksOk(c, sel_id(strip(sel)))']_vars

\* A student has two rows in a subject with different marks, and the tree
\* shows a value that is not the one recorded last
C17_Witness ==
    \E c \in Mk.clients, sub \in Ids(subjects) :
        /\ frame[c] = "TeacherDashboard"
        /\ ShownMarksOk(c, sub)
        /\ \E i \in DOMAIN tree[c] :
              LET rows == PairRows(marks, tree[c][i].student_id, sub)
              IN  /\ tree[c][i].marks # <<>>
                  /\ tree[c][i].marks[1] # marks[Latest(rows)].marks

----------------------------------------------------------------------------
(* Properties of the directory, under Spec                                   *)

\* No two students have the same roll_no
RollUnique == \A i, j \in Ids(students) : students[i].roll_no = students[j].roll_no => i = j

\* C7: add_student with a complete form whose roll_no some student has shows
\* the duplicate error and leaves the students table as it was; and before
\* and after every step no two students have the same roll_no.
C7_DuplicateRoll ==
    [][/\ \A c \in Dir.clients, form \in Dir.studentForms :
             (/\ form_ok(form)
              /\ \E i \in Ids(students) : students[i].roll_no = strip(form[2])
              /\ add_student(c, form)) =>
                 /\ students' = students
                 /\ msg'[c] = Box("Error", "Roll No must be unique")
       /\ RollUnique /\ RollUnique']_vars

\* Two students are there and a third form with the roll_no of one was refused
C7_Witness ==
    /\ Len(students) = 2
    /\ \E c \in Dir.clients : msg[c] = Box("Error", "Roll No must be unique")

----------------------------------------------------------------------------
(* Properties of the users table, under SpecCred                             *)

\* The users rows without those of role admin
NonAdmins == SelectSeq(users, LAMBDA r : r.role # T("admin"))

\* Some row has role admin; init_db returns the users table as it is, while
\* on its rows without the admins it adds the default admin and nothing else
InitDbKeeps ==
    /\ HasAdmin(users)
    /\ init_db(users, today) = users
    /\ init_db(NonAdmins, today) = Append(NonAdmins, DefaultAdmin(today))
    /\ init_db(init_db(NonAdmins, today), today) = init_db(NonAdmins, today)

\* C8: before and after every step some users row has role admin, and
\* init_db inserts the default admin (admin / admin123) exactly when the
\* table it is given has no admin row; and a start of the program (init_db
\* again) in any state leaves every table as it was.
C8_InitIdempotent ==
    [][/\ InitDbKeeps /\ InitDbKeeps'
       /\ \A c \in Cred.clients : Start(c) => UNCHANGED tables]_vars

\* The program was started again after the admin's password was reset and a
\* login was created: the login page, and the tables as they were
C8_Witness ==
    /\ \E i \in Ids(users) : /\ users[i].role = T("admin")
                             /\ users[i].password # T("admin123")
                             /\ users[i].created_at.fmt = "iso"
    /\ \E i \in Ids(users) : users[i].role = T("teacher")
    /\ \A c \in Cred.clients : frame[c] = "LoginPage" /\ user[c] = NoUser

\* No two users rows have the same username
UsernameUnique == \A i, j \in Ids(users) : users[i].username = users[j].username => i = j

\* C9: create_login with a role that is not teacher or student (as it reads
\* the role, in lower case) or with a username some row has leaves the users
\* table as it was; no step changes the role of a row or adds a row whose
\* role is not teacher or student, so no admin login is added after init_db;
\* and before and after every step no two users rows have the same username.
C9_CreateLogin ==
    [][/\ \/ users' = users
          \/ \A c \in Cred.clients, role \in Cred.roles, sel \in Sels(Cred.maxRef),
                u \in Cred.newU, p \in Cred.newP :
                (\/ lower(role) \notin {T("teacher"), T("student")}
                 \/ \E i \in Ids(users) : users[i].username = strip(u)) =>
                    ~create_login(c, role, sel, u, p)
       /\ Len(users') >= Len(users)
       /\ \A i \in Ids(users) : users'[i].role = users[i].role
       /\ \A i \in Ids(users') \ Ids(users) :
                users'[i].role \in {T("teacher"), T("student")}
       /\ UsernameUnique /\ UsernameUnique']_vars

\* A teacher's and a student's login are there, and a create_login was refused
\* for its role
C9_Witness ==
    /\ \E i, j \in Ids(users) : users[i].role = T("teacher") /\ users[j].role = T("student")
    /\ \E c \in Cred.clients : msg[c] = Box("Error", "Role must be 'teacher' or 'student'")

----------------------------------------------------------------------------
(* The end-to-end scenario, under Spec                                       *)

\* The admin has added teacher t (T1) and subject sub (MATH101), assigned t
\* to sub and created the login t1 / pass1 for t; student S1 is there
Scenario(t, sub) ==
    /\ t \in Ids(teachers) /\ teachers[t].name = T("T1")
    /\ sub \in Ids(subjects) /\ subjects[sub].subject_code = T("MATH101")
    /\ \E a \in Ids(assignments) :
          assignments[a].teacher_id = t /\ assignments[a].subject_id = sub
    /\ \E i \in Ids(users) :
          /\ users[i].username = T("t1") /\ users[i].password = T("pass1")
          /\ users[i].role = T("teacher") /\ users[i].reference_id = t
    /\ \E s \in Ids(students) : students[s].name = T("S1")

\* The one row the admin's attendance view is to show for subject sub
ScenarioRow(sub) ==
    [attendance_id |-> 1, student |-> T("S1"), subject |-> subjects[sub].subject_name,
     date |-> today, status |-> "Present", marked_by |-> T("T1")]

\* C10: once the scenario is set up, a login as t1 / pass1 shows the teacher
\* dashboard with MATH101 among its subjects; and with no attendance yet, one
\* toggle by t1 for S1 in MATH101 leaves the admin's attendance view with
\* exactly one row: S1, MATH101's subject, today, Present, marked by T1.
C10_Scenario ==
    [][\A c \in Dir.clients, t \in 1..Dir.maxTeachers, sub \in 1..Dir.maxSubjects :
          Scenario(t, sub) =>
              /\ do_login(c, T("t1"), T("pass1")) =>
                    /\ frame'[c] = "TeacherDashboard"
                    /\ user'[c].reference_id = t
                    /\ \E i \in DOMAIN dash'[c] : dash'[c][i] = sub
              /\ \A k \in 1..Dir.maxStudents :
                    (/\ attendance = <<>>
                     /\ mark_attendance(c, <<digits(sub), "-", "name">>, k)
                     /\ user[c].username = T("t1")
                     /\ tree[c][k].name = T("S1")) =>
                        AttendanceView' = <<ScenarioRow(sub)>>]_vars

\* The scenario has run, and the admin is looking at the one row
C10_Witness ==
    /\ \E t \in Ids(teachers), sub \in Ids(subjects) :
          Scenario(t, sub) /\ AttendanceView = <<ScenarioRow(sub)>>
    /\ \E c \in Dir.clients : frame[c] = "AdminDashboard"

----------------------------------------------------------------------------
(* Properties of the rows in place, under SpecTwo                            *)

\* No row of old is deleted: rows keep their ids and new rows come after them
RowsStay(old, new) == Len(new) >= Len(old)

\* The rows of old are in new unchanged
RowsKept(old, new) == RowsStay(old, new) /\ \A i \in Ids(old) : new[i] = old[i]

\* No step deletes a row of any table, and none changes a row of teachers,
\* students, subjects, assignments, marks or notices
OtherTablesKept ==
    /\ RowsKept(teachers, teachers')
    /\ RowsKept(students, students')
    /\ RowsKept(subjects, subjects')
    /\ RowsKept(assignments, assignments')
    /\ RowsKept(marks, marks')
    /\ RowsKept(notices, notices')
    /\ RowsStay(users, users')
    /\ RowsStay(attendance, attendance')

\* C11 as stated: no operation deletes a row, and the only fields changed in
\* place are users.password and attendance.status; every other field of every
\* row keeps the value it was created with.
C11_OnlyPasswordAndStatus ==
    [][/\ OtherTablesKept
       /\ \A i \in Ids(users) :
             [users'[i] EXCEPT !.password = users[i].password] = users[i]
       /\ \A i \in Ids(attendance) :
             [attendance'[i] EXCEPT !.status = attendance[i].status] = attendance[i]]_vars

\* C11, amended: no operation deletes a row; the fields changed in place are
\* users.password with users.created_at (reset_password) and attendance.status
\* with attendance.teacher_id (a toggle); every other field of every row,
\* username, role and reference_id among them, keeps its creation value.
C11_InPlaceFields ==
    [][/\ OtherTablesKept
       /\ \A i \in Ids(users) :
             [users'[i] EXCEPT !.password = users[i].password,
                               !.created_at = users[i].created_at] = users[i]
       /\ \A i \in Ids(attendance) :
             [attendance'[i] EXCEPT !.status = attendance[i].status,
                                    !.teacher_id = attendance[i].teacher_id]
                = attendance[i]]_vars

\* The admin's password has been reset, and a row inserted by one teacher has
\* been toggled by the other
C11_Witness ==
    /\ users[1].password = T("pass1")
    /\ users[1].created_at = Stamp("iso", today)
    /\ \E r \in Ids(attendance) :
          attendance[r].status = "Absent" /\ attendance[r].teacher_id = 2
    /\ \E m \in Ids(marks) : TRUE

----------------------------------------------------------------------------
(* Properties of the forms, under SpecForms                                  *)

\* C12: every users row with role teacher has the id of an existing teachers
\* row as reference_id, every row with role student the id of an existing
\* students row, and every admin row a null reference_id (so a successful
\* teacher or student login resolves to its person record).
C12_ReferenceIntegrity ==
    \A i \in Ids(users) :
        /\ users[i].role = T("teacher") => users[i].reference_id \in Ids(teachers)
        /\ users[i].role = T("student") => users[i].reference_id \in Ids(students)
        /\ users[i].role = T("admin") => users[i].reference_id = NULL

----------------------------------------------------------------------------
(* Properties of the session, under SpecCred                                 *)

\* The frame that do_login switches to for a role
RoleFrame(role) ==
    CASE role = T("admin") -> "AdminDashboard"
      [] role = T("teacher") -> "TeacherDashboard"
      [] role = T("student") -> "StudentDashboard"
      [] OTHER -> "LoginPage"

\* A process holds one principal or none; a dashboard is up exactly when it
\* holds one, and it is the dashboard of the principal's role
OnePrincipal(c) ==
    /\ (user[c] = NoUser) = (frame[c] = "LoginPage")
    /\ user[c] # NoUser => frame[c] = RoleFrame(user[c].role)

\* C13: a process has at most one principal; it is set only by a successful
\* login and cleared only by logout (or by starting the application anew); a
\* role's dashboard is up exactly when a principal is set and has that role;
\* logout leaves the login page with no principal.
C13_Principal ==
    [][\A c \in Cred.clients :
          /\ OnePrincipal(c) /\ OnePrincipal(c)'
          /\ logout(c) => user'[c] = NoUser /\ frame'[c] = "LoginPage"
          /\ user'[c] # user[c] =>
                IF user'[c] = NoUser
                THEN logout(c) \/ Start(c)
                ELSE /\ user[c] = NoUser /\ frame[c] = "LoginPage"
                     /\ \E u \in Cred.loginU, p \in Cred.loginP :
                           /\ login_row(users, u, p) # 0
                           /\ user'[c] = UserDict(login_row(users, u, p))]_vars

\* A student is logged in on the student dashboard, after the admin who
\* created the logins has logged out
C13_Witness ==
    \E c \in Cred.clients :
        /\ user[c] # NoUser
        /\ user[c].role = T("student")
        /\ frame[c] = "StudentDashboard"
        /\ Len(users) = CredMaxUsers

----------------------------------------------------------------------------
(* Properties of a toggle, under SpecTwo                                     *)

\* The other status
Flip(status) == IF status = "Absent" THEN "Present" ELSE "Absent"

\* C14: a toggle on an existing record flips that record's status and sets its
\* teacher_id to the toggling teacher; its student_id, subject_id and date and
\* every other row stay as they are; and the marked_by the attendance view
\* shows for a record is the teacher of the most recent toggle on it (no other
\* operation writes attendance).
C14_ToggleFrame ==
    [][/\ \A c \in Two.clients, sel \in Sels(Two.maxSel), k \in 1..Two.maxStudents :
             (/\ TeacherIdle(c) /\ k <= Len(tree[c]) /\ strip(sel) # <<>>
              /\ MarkRead(c, strip(sel), k).r_id # 0
              /\ mark_attendance(c, sel, k)) =>
                 LET r == MarkRead(c, strip(sel), k).r_id
                     t == user[c].reference_id
                     view == AttendanceView'
                 IN  /\ attendance' = [attendance EXCEPT ![r].status = Flip(attendance[r].status),
                                                          ![r].teacher_id = t]
                     /\ \E i \in DOMAIN view : view[i].attendance_id = r
                     /\ \A i \in DOMAIN view :
                           view[i].attendance_id = r => view[i].marked_by = teachers[t].name
       /\ attendance' # attendance =>
             \E c \in Two.clients, sel \in Sels(Two.maxSel), k \in 1..Two.maxStudents :
                 /\ mark_attendance(c, sel, k)
                 /\ strip(sel) # <<>>
                 /\ \A r \in Ids(attendance) :
                       attendance'[r] # attendance[r] =>
                           r = MarkRead(c, strip(sel), k).r_id]_vars

\* T2 has toggled a record that T1 inserted, and the view shows T2 for it
C14_Witness ==
    \E i \in DOMAIN AttendanceView :
        /\ AttendanceView[i].status = "Absent"
        /\ AttendanceView[i].marked_by = T("T2")
        /\ Len(attendance) = 2
        /\ \E j \in DOMAIN AttendanceView : AttendanceView[j].marked_by = T("T1")

\* An entry of the form is empty, or holds blanks only
HasEmpty(form) == \E i \in DOMAIN form : strip(form[i]) = <<>>

\* An error box is shown, nothing stored changes, and process c keeps its
\* principal and its frame
NothingDone(c) ==
    /\ UNCHANGED tables
    /\ user'[c] = user[c] /\ frame'[c] = frame[c]
    /\ msg'[c].title \in {"Error", "Login failed"}

\* C16: a validation error (an empty required entry in the login form, in an
\* add form, in the assign or the create-login dialog) and a duplicate-key
\* error (a username, a roll_no or a subject code some row has) end in an
\* error message and leave every table, the principal and the frame of the
\* process as they were.
C16_ErrorsChangeNothing ==
    [][\A c \in Forms.clients :
          /\ \A u \in Forms.loginU, p \in Forms.loginP :
                (HasEmpty(<<u, p>>) /\ do_login(c, u, p)) => NothingDone(c)
          /\ \A form \in Forms.studentForms :
                (/\ HasEmpty(form) \/ \E i \in Ids(students) : students[i].roll_no = strip(form[2])
                 /\ add_student(c, form)) => NothingDone(c)
          /\ \A form \in Forms.teacherForms :
                (HasEmpty(form) /\ add_teacher(c, form)) => NothingDone(c)
          /\ \A form \in Forms.subjectForms :
                (/\ HasEmpty(form)
                    \/ \E i \in Ids(subjects) : subjects[i].subject_code = strip(form[2])
                 /\ add_subject(c, form)) => NothingDone(c)
          /\ \A form \in Forms.noticeForms :
                (HasEmpty(form) /\ add_notice(c, form)) => NothingDone(c)
          /\ \A t \in Sels(Forms.maxTeachers), s \in Sels(Forms.maxSubjects) :
                (HasEmpty(<<t, s>>) /\ assign_teacher(c, t, s)) => NothingDone(c)
          /\ \A role \in Forms.roles, sel \in Sels(Forms.maxRef),
                u \in Forms.newU, p \in Forms.newP :
                (/\ HasEmpty(<<role, sel, u, p>>)
                    \/ \E i \in Ids(users) : users[i].username = strip(u)
                 /\ create_login(c, role, sel, u, p)) => NothingDone(c)]_vars

\* The admin, with a student, a subject and a second login stored, has just
\* been refused a username that a row has
C16_Witness ==
    \E c \in Forms.clients :
        /\ frame[c] = "AdminDashboard"
        /\ msg[c] = Box("Error", "Username already exists")
        /\ Len(users) = FormsMaxUsers
        /\ students # <<>> /\ subjects # <<>>

----------------------------------------------------------------------------
(* Properties of authorisation, under SpecTwo                                *)

\* Teacher t is assigned subject sub
Assigned(t, sub) ==
    \E a \in Ids(assignments) :
        assignments[a].teacher_id = t /\ assignments[a].subject_id = sub

\* C18: every attendance row and every marks row carries a (teacher_id,
\* subject_id) for which an assignments row exists, so a teacher with no
\* assignment creates and changes no attendance or marks row.
C18_OnlyAssigned ==
    /\ \A r \in Ids(attendance) : Assigned(attendance[r].teacher_id, attendance[r].subject_id)
    /\ \A m \in Ids(marks) : Assigned(marks[m].teacher_id, marks[m].subject_id)

====
